---- MODULE Spec2Model ----
(***************************************************************************)
(* The booking workflow of app.py (Flask + sqlite3) as a state machine.    *)
(*                                                                         *)
(* The store is the three tables users, turfs and bookings.  Every request *)
(* runs on its own sqlite3 connection (get_db), so requests interleave at  *)
(* the granularity of SQL: a SELECT outside a transaction is one step, and *)
(* the writes of a handler up to its db.commit() are one step (sqlite3     *)
(* opens the transaction at the first INSERT/UPDATE/DELETE and holds the   *)
(* write lock until commit, and other connections read the old state).     *)
(* A statement that gives up waiting for a lock raises and ends its        *)
(* request with nothing written; such requests are left out.               *)
(*                                                                         *)
(* Money is counted in quarters of a currency unit, so that the 25%        *)
(* discount of an integer price is an integer.                             *)
(***************************************************************************)
EXTENDS Integers, Sequences, FiniteSets, TLC

\* ---------------------------------------------------------------- bounds
\* Requests the clients send in one run.
MaxRequests == 3

\* ------------------------------------------------------ program constants
\* Points awarded per booking (execute_booking), taken back at cancel.
LoyaltyAward == 10
\* Points redeemed by a discounted quote, and the balance it needs.
RedeemBlock == 50
\* 1 / 0.25: the discount is a quarter of the price.
DiscountDivisor == 4

\* ----------------------------------------------------------------- input
Users == {1, 2}
\* No session: g.user is None.
NoUser == 0
\* users.is_admin.
IsAdmin(u) == u = 2
TurfIds == {1, 2}
\* turfs.price_per_hour, in currency units.
TurfPrice(t) == IF t = 1 THEN 1000 ELSE 501
Dates == {"d1"}
Times == {"09:00"}
\* Caller-supplied form values of /book/execute (final_amount in quarters).
Amounts == {3000}
Redeems == {0, 50}
Reqs == {1, 2}
\* Balances a user can hold when the model starts: 0 after registration, and
\* the others after earlier bookings on turfs that have since been removed.
InitPoints == {0, 50}
\* Booking ids a cancel request may name.
BookingIds == 1..MaxRequests

VARIABLES
    turfs,      \* ids of the rows of table turfs
    bookings,   \* rows of table bookings
    nextId,     \* id the next inserted booking gets
    points,     \* users.loyalty_points, by user id
    req,        \* the requests in flight, by connection
    resp,       \* the response sent last
    served,     \* the number of requests received
    trip        \* the commit made last, and whether its booking was cancelled next

vars == <<turfs, bookings, nextId, points, req, resp, served, trip>>
store == <<turfs, bookings, nextId, points>>

\* f"{date} {time}"
BookingTime(date, time) == date \o " " \o time

\* What a handler answers: a code and, for a quote, booking_details.
Resp(code) == [code |-> code, final_amount |-> 0, discount |-> 0, points_to_redeem |-> 0]

IdleReq ==
    [pc |-> "idle", user |-> NoUser, pts |-> 0, turf |-> 0, bt |-> "",
     amount |-> 0, redeem |-> 0, flag |-> FALSE, bid |-> 0]

Idle(q) == req[q].pc = "idle"

\* History of the balance of the user who committed last: the booking, and
\* current_points, the balance the commit started from.
NoTrip == [phase |-> "none", user |-> NoUser, bid |-> 0, pre |-> 0]

\* Connection q takes the next request.
Begin(q) ==
    /\ Idle(q)
    /\ served < MaxRequests
    /\ served' = served + 1

\* The request ends with response r.
Respond(q, r) ==
    /\ req' = [req EXCEPT ![q] = IdleReq]
    /\ resp' = r

Init ==
    /\ turfs = TurfIds
    /\ bookings = {}
    /\ nextId = 1
    /\ points \in [Users -> InitPoints]
    /\ req = [q \in Reqs |-> IdleReq]
    /\ resp = Resp("none")
    /\ served = 0
    /\ trip = NoTrip

\* ------------------------------------------------------------ helpers
\* Mutant of ConfirmedRows: the status is not looked at.
ConfirmedRows_AnyStatus(t, bt) ==
    {b \in bookings : b.turf_id = t /\ b.booking_time = bt}

\* SELECT id FROM bookings WHERE turf_id = ? AND booking_time = ?
\*   AND status = "Confirmed"
ConfirmedRows(t, bt) ==
    {b \in bookings : b.turf_id = t /\ b.booking_time = bt /\ b.status = "Confirmed"}

\* Mutant of OwnRows: the owner is not looked at.
OwnRows_AnyUser(bid, u) == {b \in bookings : b.id = bid}

\* SELECT * FROM bookings WHERE id = ? AND user_id = ?
OwnRows(bid, u) == {b \in bookings : b.id = bid /\ b.user_id = u}

\* A price in quarters of a currency unit.
ToQuarters(price) == 4 * price

\* Mutant of Redeemable: > for >=.
Redeemable_Strict(flag, pts) == flag /\ pts > RedeemBlock

\* redeem_points and g.user['loyalty_points'] >= 50
Redeemable(flag, pts) == flag /\ pts >= RedeemBlock

\* points_to_redeem of confirm_booking
QuotePoints(flag, pts) == IF Redeemable(flag, pts) THEN RedeemBlock ELSE 0

\* discount of confirm_booking: amount * 0.25, in quarters
QuoteDiscount(flag, pts, amount) ==
    IF Redeemable(flag, pts) THEN amount \div DiscountDivisor ELSE 0

\* new_points = (current_points - points_redeemed) + 10
NewPoints(current, redeemed) == (current - redeemed) + LoyaltyAward

\* Mutant of PointsChange: the redeemed points are not returned.
PointsChange_NoReturn(redeemed) == 0 - LoyaltyAward

\* points_change of cancel_booking
PointsChange(redeemed) == (IF redeemed > 0 THEN redeemed ELSE 0) - LoyaltyAward

\* UPDATE bookings SET status = "Cancelled" WHERE id = ?
CancelRows(bid) ==
    {IF b.id = bid THEN [b EXCEPT !.status = "Cancelled"] ELSE b : b \in bookings}

\* ------------------------------------------------------------ handlers
\* A handler that needs a session and has none: redirect to login.
LoginRedirect(q) ==
    /\ Begin(q)
    /\ Respond(q, Resp("login"))
    /\ UNCHANGED <<store, trip>>

\* before_request of /check_availability and the reading of its arguments;
\* the handler never looks at g.user.
AvailabilityRequest(q, t, d, tm) ==
    /\ Begin(q)
    /\ req' = [req EXCEPT ![q] = [IdleReq EXCEPT
                  !.pc = "available", !.turf = t, !.bt = BookingTime(d, tm)]]
    /\ UNCHANGED <<store, resp, trip>>

\* check_availability: the SELECT and the answer.
CheckAvailability(q) ==
    /\ req[q].pc = "available"
    /\ Respond(q, Resp(IF ConfirmedRows(req[q].turf, req[q].bt) = {}
                       THEN "available" ELSE "unavailable"))
    /\ UNCHANGED <<store, served, trip>>

\* /book/confirm with a field missing: not all([turf_id, date, time]).
ConfirmMissing(q, u) ==
    /\ Begin(q)
    /\ Respond(q, Resp("missing"))
    /\ UNCHANGED <<store, trip>>

\* before_request of /book/confirm: g.user is the user's row as of now.
ConfirmRequest(q, u, t, flag) ==
    /\ Begin(q)
    /\ req' = [req EXCEPT ![q] = [IdleReq EXCEPT
                  !.pc = "confirm", !.user = u, !.pts = points[u],
                  !.turf = t, !.flag = flag]]
    /\ UNCHANGED <<store, resp, trip>>

\* confirm_booking from the SELECT of the turf on.
ConfirmBooking(q) ==
    /\ req[q].pc = "confirm"
    /\ \/ /\ req[q].turf \notin turfs
          /\ Respond(q, Resp("turf_not_found"))
       \/ /\ req[q].turf \in turfs
          /\ LET amount == ToQuarters(TurfPrice(req[q].turf))
                 discount == QuoteDiscount(req[q].flag, req[q].pts, amount)
             IN  Respond(q, [code |-> "quote",
                             final_amount |-> amount - discount,
                             discount |-> discount,
                             points_to_redeem |-> QuotePoints(req[q].flag, req[q].pts)])
    /\ UNCHANGED <<store, served, trip>>

\* before_request of /book/execute and the parsing of its form.
ExecuteRequest(q, u, t, d, tm, amount, redeemed) ==
    /\ Begin(q)
    /\ req' = [req EXCEPT ![q] = [IdleReq EXCEPT
                  !.pc = "exec_check", !.user = u, !.pts = points[u],
                  !.turf = t, !.bt = BookingTime(d, tm),
                  !.amount = amount, !.redeem = redeemed]]
    /\ UNCHANGED <<store, resp, trip>>

\* Mutant of ExecCheck: the error is flashed and the handler goes on.
ExecCheck_NoReturn(q) ==
    /\ req[q].pc = "exec_check"
    /\ req' = [req EXCEPT ![q].pc = "exec_write"]
    /\ UNCHANGED <<store, resp, served, trip>>

\* execute_booking: the final check of the slot.
ExecCheck(q) ==
    /\ req[q].pc = "exec_check"
    /\ \/ /\ ConfirmedRows(req[q].turf, req[q].bt) # {}
          /\ Respond(q, Resp("conflict"))
       \/ /\ ConfirmedRows(req[q].turf, req[q].bt) = {}
          /\ req' = [req EXCEPT ![q].pc = "exec_write"]
          /\ UNCHANGED resp
    /\ UNCHANGED <<store, served, trip>>

\* The row execute_booking inserts.
NewBooking(q) ==
    [id |-> nextId, user_id |-> req[q].user, turf_id |-> req[q].turf,
     booking_time |-> req[q].bt, amount_paid |-> req[q].amount,
     points_redeemed |-> req[q].redeem, status |-> "Confirmed"]

\* execute_booking from the SELECT of the turf to the commit.  The turf row
\* is used for the page only, which is rendered after the commit (and fails
\* to render when the row is missing): either way the answer is "committed".
ExecWrite(q) ==
    /\ req[q].pc = "exec_write"
    /\ bookings' = bookings \cup {NewBooking(q)}
    /\ nextId' = nextId + 1
    /\ points' = [points EXCEPT ![req[q].user] = NewPoints(req[q].pts, req[q].redeem)]
    /\ Respond(q, Resp("committed"))
    /\ trip' = [phase |-> "committed", user |-> req[q].user, bid |-> nextId,
                pre |-> req[q].pts]
    /\ UNCHANGED <<turfs, served>>

\* before_request of /cancel_booking/<booking_id>.
CancelRequest(q, u, bid) ==
    /\ Begin(q)
    /\ req' = [req EXCEPT ![q] = [IdleReq EXCEPT
                  !.pc = "cancel_select", !.user = u, !.bid = bid]]
    /\ UNCHANGED <<store, resp, trip>>

\* cancel_booking: the SELECT of the booking.
CancelSelect(q) ==
    /\ req[q].pc = "cancel_select"
    /\ \/ /\ OwnRows(req[q].bid, req[q].user) = {}
          /\ Respond(q, Resp("not_found"))
       \/ /\ \E b \in OwnRows(req[q].bid, req[q].user) :
                req' = [req EXCEPT ![q].pc = "cancel_write",
                                   ![q].redeem = b.points_redeemed]
          /\ UNCHANGED resp
    /\ UNCHANGED <<store, served, trip>>

\* cancel_booking: the two UPDATEs and the commit.
CancelWrite(q) ==
    /\ req[q].pc = "cancel_write"
    /\ bookings' = CancelRows(req[q].bid)
    /\ points' = [points EXCEPT ![req[q].user] = @ + PointsChange(req[q].redeem)]
    /\ Respond(q, Resp("cancelled"))
    /\ trip' = IF trip.user # req[q].user THEN trip
               ELSE IF trip.phase = "committed" /\ trip.bid = req[q].bid
                    THEN [trip EXCEPT !.phase = "cancelled"]
                    ELSE NoTrip
    /\ UNCHANGED <<turfs, nextId, served>>

\* remove_turf (before_request included: it uses g.user['is_admin'] only).
RemoveTurf(q, u, t) ==
    /\ Begin(q)
    /\ \/ /\ ~IsAdmin(u)
          /\ Respond(q, Resp("index"))
          /\ UNCHANGED store
       \/ /\ IsAdmin(u)
          /\ bookings' = {b \in bookings : b.turf_id # t}
          /\ turfs' = turfs \ {t}
          /\ Respond(q, Resp("removed"))
          /\ UNCHANGED <<nextId, points>>
    /\ UNCHANGED trip

Next ==
    \E q \in Reqs :
        \/ LoginRedirect(q)
        \/ \E t \in TurfIds, d \in Dates, tm \in Times : AvailabilityRequest(q, t, d, tm)
        \/ CheckAvailability(q)
        \/ \E u \in Users : ConfirmMissing(q, u)
        \/ \E u \in Users, t \in TurfIds, flag \in BOOLEAN : ConfirmRequest(q, u, t, flag)
        \/ ConfirmBooking(q)
        \/ \E u \in Users, t \in TurfIds, d \in Dates, tm \in Times,
              amount \in Amounts, redeemed \in Redeems :
              ExecuteRequest(q, u, t, d, tm, amount, redeemed)
        \/ ExecCheck(q)
        \/ ExecWrite(q)
        \/ \E u \in Users, bid \in BookingIds : CancelRequest(q, u, bid)
        \/ CancelSelect(q)
        \/ CancelWrite(q)
        \/ \E u \in Users \cup {NoUser}, t \in TurfIds : RemoveTurf(q, u, t)

Spec == Init /\ [][Next]_vars

\* ------------------------------------------------------------- claims
\* A Confirmed row for the slot (t, bt), said without the model's helpers.
Occupied(t, bt) ==
    \E b \in bookings :
        b.turf_id = t /\ b.booking_time = bt /\ b.status = "Confirmed"

\* Connection q's request ends in this step.
Ends(q, pc) == req[q].pc = pc /\ req'[q].pc = "idle"

\* C1: for every turf and date-time, at most one booking of that slot has
\* status Confirmed, also when two commits of the slot run concurrently.
C1_AtMostOneConfirmed ==
    \A b1 \in bookings : \A b2 \in bookings :
        (/\ b1.turf_id = b2.turf_id
         /\ b1.booking_time = b2.booking_time
         /\ b1.status = "Confirmed"
         /\ b2.status = "Confirmed") => b1.id = b2.id

\* C2: a commit whose re-check finds the slot holding a Confirmed booking
\* answers with the conflict error and changes neither table.
C2_ConflictAborts ==
    [][\A q \in Reqs :
         (/\ req[q].pc = "exec_check"
          /\ req'[q] # req[q]
          /\ Occupied(req[q].turf, req[q].bt))
         => (/\ req'[q].pc = "idle"
             /\ resp'.code = "conflict"
             /\ UNCHANGED store)]_vars

\* C2's case: a commit was refused while its slot held a Confirmed booking.
C2_Witness ==
    /\ resp.code = "conflict"
    /\ \E b \in bookings : b.status = "Confirmed"

\* C3: the availability check answers "available" exactly when no booking
\* of the asked turf id and date-time is Confirmed (unknown turf ids and
\* slots with only Cancelled bookings included), and changes no table.
C3_AvailabilityExact ==
    [][\A q \in Reqs :
         Ends(q, "available")
         => (/\ resp'.code = (IF Occupied(req[q].turf, req[q].bt)
                              THEN "unavailable" ELSE "available")
             /\ UNCHANGED store)]_vars

\* C3's case: the check has answered "unavailable" while a booking is
\* Confirmed.
C3_Witness ==
    /\ resp.code = "unavailable"
    /\ \E b \in bookings : b.status = "Confirmed"

\* C4: the quote for an existing turf gives discount = 25% of the price and
\* points_to_redeem = 50 when the flag is set and the balance the request
\* read is >= 50, otherwise 0 and 0; final amount = price - discount; and
\* it changes no table.  (Amounts in quarters: 4 * price is the price.)
C4_QuoteExact ==
    [][\A q \in Reqs :
         (Ends(q, "confirm") /\ req[q].turf \in turfs)
         => LET price == 4 * TurfPrice(req[q].turf)
                redeem == req[q].flag /\ req[q].pts >= 50
            IN  /\ resp'.code = "quote"
                /\ resp'.points_to_redeem = (IF redeem THEN 50 ELSE 0)
                /\ 100 * resp'.discount = (IF redeem THEN 25 * price ELSE 0)
                /\ resp'.final_amount = price - resp'.discount
                /\ UNCHANGED store]_vars

\* C4's case: a discounted quote has been given.
C4_Witness ==
    /\ resp.code = "quote"
    /\ resp.points_to_redeem = 50
    /\ resp.discount > 0

C6_CancelAppliedOnce ==
    [][\A q \in Reqs :
         (/\ Ends(q, "cancel_write")
          /\ \E b \in bookings : b.id = req[q].bid /\ b.status = "Cancelled")
         => points' = points]_vars

\* C7: a cancel by a user who does not own the booking, or of a booking id
\* that does not exist, answers not-found and changes neither table.
C7_ForeignCancelNoOp ==
    [][\A q \in Reqs :
         (/\ req[q].pc = "cancel_select"
          /\ req'[q] # req[q]
          /\ ~ \E b \in bookings : b.id = req[q].bid /\ b.user_id = req[q].user)
         => (/\ req'[q].pc = "idle"
             /\ resp'.code = "not_found"
             /\ UNCHANGED store)]_vars

\* C7's case: a cancel was answered not-found while a booking is Confirmed.
C7_Witness ==
    /\ resp.code = "not_found"
    /\ \E b \in bookings : b.status = "Confirmed"

\* C8: once a turf has been removed, no booking row references its id (all
\* turfs exist at the start and none is added, so a missing id is a
\* removed turf).
C8_NoRowsOfRemovedTurf ==
    \A b \in bookings : b.turf_id \in turfs

\* C9: every balance is non-negative in every reachable state.
C9_PointsNonNegative ==
    \A u \in Users : points[u] >= 0

\* C10: a successful commit inserts exactly one Confirmed booking with the
\* supplied values and sets the balance to the stored balance just before
\* its writes - points redeemed + 10.
C10_CommitFromStoredBalance ==
    [][\A q \in Reqs :
         Ends(q, "exec_write")
         => (/\ points'[req[q].user]
                  = (points[req[q].user] - req[q].redeem) + 10
             /\ \E b \in bookings' \ bookings :
                   /\ bookings' = bookings \cup {b}
                   /\ b.user_id = req[q].user
                   /\ b.amount_paid = req[q].amount
                   /\ b.points_redeemed = req[q].redeem
                   /\ b.status = "Confirmed")]_vars
====
